---- MODULE Spec2Model ----
(***************************************************************************)
(* AGit: the orchestrator `main` of agit/main.py as a state machine.       *)
(* One run of the command line tool: parse the arguments, then either      *)
(* review the working-tree diff, print usage/help, or translate the        *)
(* request into a git command, display it, classify it and execute it     *)
(* (after a confirmation when the classifier calls it destructive).        *)
(*                                                                         *)
(* Python strings are sequences of one-character strings, so that join,   *)
(* split, strip and lower are computed and not assumed.                    *)
(***************************************************************************)
EXTENDS Integers, Sequences, FiniteSets, TLC

\* ------------------------------------------------------------- bounds
\* Largest number of positional tokens on the command line.
MaxTokens == 2
\* Largest length of an answer typed at the confirmation prompt.
MaxRespLen == 3

\* ------------------------------------------------------------- strings
\* All sequences over S of length at most n.
SeqsUpTo(S, n) == UNION {[1..k -> S] : k \in 0..n}

\* Characters str.strip() removes (whitespace).
Whitespace == {" ", "\t"}

\* str.lower() on one character.
LowerChar(c) ==
    CASE c = "Y" -> "y"
      [] c = "N" -> "n"
      [] c = "E" -> "e"
      [] c = "S" -> "s"
      [] OTHER -> c

\* str.lower(): every character lowered.
Lower(s) == [i \in DOMAIN s |-> LowerChar(s[i])]

RECURSIVE LStrip(_)
\* Leading whitespace removed.
LStrip(s) ==
    IF s # <<>> /\ Head(s) \in Whitespace THEN LStrip(Tail(s)) ELSE s

RECURSIVE RStrip(_)
\* Trailing whitespace removed.
RStrip(s) ==
    IF s # <<>> /\ s[Len(s)] \in Whitespace
    THEN RStrip(SubSeq(s, 1, Len(s) - 1))
    ELSE s

\* str.strip(): leading and trailing whitespace removed.
Strip(s) == RStrip(LStrip(s))

RECURSIVE Join(_)
\* " ".join(tokens)
Join(tokens) ==
    IF tokens = <<>> THEN <<>>
    ELSE IF Len(tokens) = 1 THEN tokens[1]
    ELSE tokens[1] \o <<" ">> \o Join(Tail(tokens))

RECURSIVE SplitFrom(_, _, _)
\* str.split() scanning s with the word `cur` in progress and `acc` done.
SplitFrom(s, cur, acc) ==
    IF s = <<>>
    THEN IF cur = <<>> THEN acc ELSE Append(acc, cur)
    ELSE IF Head(s) \in Whitespace
         THEN SplitFrom(Tail(s), <<>>,
                        IF cur = <<>> THEN acc ELSE Append(acc, cur))
         ELSE SplitFrom(Tail(s), Append(cur, Head(s)), acc)

\* str.split(): the words between runs of whitespace.
Split(s) == SplitFrom(s, <<>>, <<>>)

\* Number of occurrences of event e in the sequence t.
Count(t, e) == Cardinality({i \in DOMAIN t : t[i] = e})

\* ------------------------------------------------------- collaborators
\* Command texts the language model may suggest.
git_status == <<"g","i","t"," ","s","t","a","t","u","s">>
git_log == <<"g","i","t"," "," ","l","o","g">>
git_push_force == <<"g","i","t"," ","p","u","s","h"," ","-","-","f","o","r","c","e">>
git_reset_hard == <<"g","i","t"," ","r","e","s","e","t"," ","-","-","h","a","r","d">>

SuggestedCommands == {git_status, git_log, git_push_force, git_reset_hard}

\* Flags whose presence makes a command destructive, with the reason given.
DestructiveFlags ==
    { <<"-","-","f","o","r","c","e">>, <<"-","-","h","a","r","d">> }

\* Mutant: a destructive verdict comes without its reason.
is_destructive_noreason(command) ==
    <<\E w \in DestructiveFlags :
          \E i \in DOMAIN Split(command) : Split(command)[i] = w,
      <<>>>>

\* agit.security.is_destructive: (verdict, reason), keyword/flag based.
is_destructive(command) ==
    LET words == Split(command)
        hits == {i \in DOMAIN words : words[i] \in DestructiveFlags}
    IN  IF hits = {}
        THEN <<FALSE, <<>>>>
        ELSE <<TRUE, words[CHOOSE i \in hits : \A j \in hits : i <= j]>>

\* agit.openai_api.translate_to_git_command: a suggestion, or TranslationError.
\* The explanation field is filled only when it was asked for.
TranslateOutcomes(natural, want_explanation) ==
    { [ok |-> TRUE,
       value |-> [command |-> c, description |-> "description",
                  explain |-> IF want_explanation THEN "explanation" ELSE ""]]
      : c \in SuggestedCommands }
    \cup
    { [ok |-> FALSE,
       value |-> [command |-> <<>>, description |-> "", explain |-> ""]] }

\* Diffs `git diff` may print: nothing, or a patch.
Diffs == {"", "patch"}

\* agit.openai_api.review_patch: feedback, or ReviewError from the collaborator.
\* An empty diff is answered without the language model.
ReviewOutcomes(diff_content, instruct_review) ==
    IF diff_content = ""
    THEN { [ok |-> TRUE, value |-> "nothing to review", llm |-> FALSE] }
    ELSE { [ok |-> TRUE, value |-> "feedback", llm |-> TRUE],
           [ok |-> FALSE, value |-> "", llm |-> TRUE] }

\* agit.os_iface.execute_git_command: captured stdout, or raises on failure
\* (non-zero exit, command not found).
RunnerOutcomes(argv) ==
    { [ok |-> TRUE, value |-> "stdout"], [ok |-> FALSE, value |-> ""] }

\* ------------------------------------------------------------- inputs
\* Characters of a positional token and of a typed answer.
TokenChars == {"a"}
RespChars == {"y", "Y", "n", " "}

\* One positional token: possibly the empty string.
Tokens == SeqsUpTo(TokenChars, 1)

\* What argparse can produce for the command line.
ArgsSpace ==
    [review : BOOLEAN, explain : BOOLEAN, debug : BOOLEAN,
     command : SeqsUpTo(Tokens, MaxTokens)]

\* openai.api_key: unset (empty) or set.
ApiKeys == {"", "sk"}

\* What the user may type at the prompt.
Responses ==
    SeqsUpTo(RespChars, MaxRespLen)
    \cup { <<"y","e","s">>, <<"N">>, <<"\t","y">> }

\* ------------------------------------------------------------- state
VARIABLES
    args,                   \* argparse namespace
    api_key,                \* openai.api_key
    pc,                     \* position in main, or the terminal state
    loglevel,               \* mylogger level
    diff_output,            \* review: output of `git diff`
    content,                \* review: feedback text
    natural_language,       \* joined positional tokens
    git_command,            \* the translator's suggestion
    is_destructive_result,  \* the classifier's verdict
    proceed,                \* the answer typed at the prompt
    unflushed,              \* writes to the pager stream not yet flushed
    trace,                  \* observable events of the run, in order
    translate_calls,        \* arguments of each translator call
    review_calls,           \* arguments of each reviewer call
    runner_calls,           \* argument vector of each command-runner call
    exit_code               \* process exit status, -1 while running

vars == <<args, api_key, pc, loglevel, diff_output, content, natural_language,
          git_command, is_destructive_result, proceed, unflushed, trace,
          translate_calls, review_calls, runner_calls, exit_code>>

\* Values of locals not yet assigned.
NoSuggestion == [command |-> <<>>, description |-> "", explain |-> ""]
NoVerdict == <<FALSE, <<>>>>

Init ==
    /\ args \in ArgsSpace
    /\ api_key \in ApiKeys
    /\ pc = "L59"
    /\ loglevel = "WARNING"
    /\ diff_output = ""
    /\ content = ""
    /\ natural_language = <<>>
    /\ git_command = NoSuggestion
    /\ is_destructive_result = NoVerdict
    /\ proceed = <<>>
    /\ unflushed = 0
    /\ trace = <<>>
    /\ translate_calls = <<>>
    /\ review_calls = <<>>
    /\ runner_calls = <<>>
    /\ exit_code = -1

\* mylogger.debug(msg): emitted only at DEBUG level.
Debug(t, level) == IF level = "DEBUG" THEN Append(t, "debug_log") ELSE t

\* Mutant: main does not come back (it waits on the pager for ever).
Return_hangs(state) ==
    /\ pc' = "L125"
    /\ UNCHANGED exit_code

\* `return` from main: asyncio.run ends and the process exits 0.
Return(state) ==
    /\ pc' = state
    /\ exit_code' = 0

\* Mutant: the exception is swallowed and the run ends normally.
Raise_swallowed(t) ==
    /\ pc' = "Done"
    /\ exit_code' = 0
    /\ trace' = t

\* Mutant: the failed step is tried again.
Raise_retry(t) ==
    /\ pc' = pc
    /\ UNCHANGED exit_code
    /\ trace' = t

\* An exception nobody catches leaves main and asyncio.run: the interpreter
\* prints the traceback and exits 1.
Raise(t) ==
    /\ pc' = "Error"
    /\ exit_code' = 1
    /\ trace' = Append(t, "traceback")

\* What may be left unflushed once a `with autopage.AutoPager(...)` block is
\* left with n writes pending: the model does not rely on the exit flushing.
PagerExit(n) == {0, n}

\* ------------------------------------------------------------- guards
\* Mutant: the review switch is not looked at.
ReviewMode_ignored == FALSE

\* `if args.review:`
ReviewMode == args.review

\* Mutant: the command line `git diff` is handed over, not its output.
DiffArgument_cmd == "git diff"

\* `diff_content=diff_output`: the diff handed to the reviewer.
DiffArgument == diff_output

\* Mutant: the list is compared with None, which nargs="*" never yields.
NoCommand_isNone == FALSE

\* `not args.command`: no positional token was given.
NoCommand == args.command = <<>>

\* Mutant: the credential check is made before the review branch.
ReachesCredentialCheck_first == ~NoCommand

\* Line 83 is reached past the returns of lines 73, 77 and 81.
ReachesCredentialCheck == ~ReviewMode /\ ~NoCommand

\* Mutant: the credential check always passes.
CredentialMissing_never == FALSE

\* `if not openai.api_key:`
CredentialMissing == api_key = ""

\* Mutant: every verdict is taken as safe.
NotDestructive_always(verdict) == TRUE

\* Mutant: no verdict is taken as safe.
NotDestructive_never(verdict) == FALSE

\* `if not is_destructive_result[0]:`
NotDestructive(verdict) == ~verdict[1]

\* `if is_destructive_result[0]:`
Destructive(verdict) == verdict[1]

\* Mutant: the answer is not stripped before the comparison.
Affirmative_nostrip(answer) == Lower(answer) = <<"y">>

\* The negation of `proceed.strip().lower() != "y"`.
Affirmative(answer) == Lower(Strip(answer)) = <<"y">>

\* Mutant: an explanation is always asked for.
WantExplanation_always == TRUE

\* The second argument of translate_to_git_command: args.explain.
WantExplanation == args.explain

\* Mutant: the test of --explain is inverted.
ExplanationShown_inverted == ~args.explain

\* `if args.explain:` before print_explanation.
ExplanationShown == args.explain

\* Mutant: flush does nothing.
Flush_noop(n) == n

\* out_stream.flush(): what is left pending of n written items.
Flush(n) == 0

\* Mutant: the reason line is not printed.
Warning_noreason(t) == Append(t, "warning")

\* print("Warning: ..."); print(f"Reason: {is_destructive_result[1]} \n")
Warning(t) == t \o <<"warning", "reason">>

\* The text put after "Reason: ": is_destructive_result[1].
ReasonLine == is_destructive_result[2]

\* Mutant: the command text is handed over whole, not split.
RunnerArgv_unsplit(command) == <<command>>

\* git_command["command"].split(): the runner's argument vector.
RunnerArgv(command) == Split(command)

\* Mutant: the `return` after the message is missing.
Stop_noreturn(t) ==
    /\ trace' = Append(t, "execution_stopped")
    /\ pc' = "L120"
    /\ UNCHANGED exit_code

\* print("Execution stopped."); return
Stop(t) ==
    /\ trace' = Append(t, "execution_stopped")
    /\ Return("Aborted")

\* ------------------------------------------------------------- actions
\* if args.debug: mylogger.setLevel(DEBUG)
SetDebugLevel ==
    /\ pc = "L59"
    /\ loglevel' = IF args.debug THEN "DEBUG" ELSE loglevel
    /\ pc' = "L62"
    /\ UNCHANGED <<args, api_key, diff_output, content, natural_language,
                   git_command, is_destructive_result, proceed, unflushed,
                   trace, translate_calls, review_calls, runner_calls,
                   exit_code>>

\* Review mode: gather the output of `git diff`.
GatherDiff ==
    /\ pc = "L62"
    /\ ReviewMode
    /\ \E d \in Diffs : diff_output' = d
    /\ trace' = Append(Debug(trace, loglevel), "gather_output")
    /\ pc' = "L66"
    /\ UNCHANGED <<args, api_key, loglevel, content, natural_language,
                   git_command, is_destructive_result, proceed, unflushed,
                   translate_calls, review_calls, runner_calls, exit_code>>

\* content = await review_patch(diff_content=..., instruct_review=args.command)
ReviewPatch ==
    /\ pc = "L66"
    /\ review_calls' = Append(review_calls,
                              [diff_content |-> DiffArgument,
                               instruct_review |-> args.command])
    /\ \E r \in ReviewOutcomes(DiffArgument, args.command) :
          LET called == IF r.llm
                        THEN Append(Append(trace, "review_patch"), "llm_call")
                        ELSE Append(trace, "review_patch")
          IN  IF r.ok
              THEN /\ content' = r.value
                   /\ trace' = called
                   /\ pc' = "L69"
                   /\ UNCHANGED exit_code
              ELSE /\ Raise(Append(called, "ReviewError"))
                   /\ UNCHANGED content
    /\ UNCHANGED <<args, api_key, loglevel, diff_output, natural_language,
                   git_command, is_destructive_result, proceed, unflushed,
                   translate_calls, runner_calls>>

\* print_review through a pager, then return.
PrintReview ==
    /\ pc = "L69"
    /\ trace' = Append(trace, "print_review")
    /\ \E u \in PagerExit(unflushed + 1) : unflushed' = u
    /\ Return("Done")
    /\ UNCHANGED <<args, api_key, loglevel, diff_output, content,
                   natural_language, git_command, is_destructive_result,
                   proceed, translate_calls, review_calls, runner_calls>>

\* if args.explain and not args.command: explain(); return
ExplainUsage ==
    /\ pc = "L62"
    /\ ~ReviewMode
    /\ args.explain /\ NoCommand
    /\ trace' = Append(trace, "explain")
    /\ Return("Done")
    /\ UNCHANGED <<args, api_key, loglevel, diff_output, content,
                   natural_language, git_command, is_destructive_result,
                   proceed, unflushed, translate_calls, review_calls,
                   runner_calls>>

\* if not args.command: parser.print_help(); return
PrintHelp ==
    /\ pc = "L62"
    /\ ~ReviewMode
    /\ ~(args.explain /\ NoCommand)
    /\ NoCommand
    /\ trace' = Append(trace, "print_help")
    /\ Return("Done")
    /\ UNCHANGED <<args, api_key, loglevel, diff_output, content,
                   natural_language, git_command, is_destructive_result,
                   proceed, unflushed, translate_calls, review_calls,
                   runner_calls>>

\* if not openai.api_key: print("OpenAI API key was not set, ..."); return
MissingCredential ==
    /\ pc = "L62"
    /\ ReachesCredentialCheck
    /\ CredentialMissing
    /\ trace' = Append(trace, "api_key_not_set")
    /\ Return("Done")
    /\ UNCHANGED <<args, api_key, loglevel, diff_output, content,
                   natural_language, git_command, is_destructive_result,
                   proceed, unflushed, translate_calls, review_calls,
                   runner_calls>>

\* natural_language = " ".join(args.command)
JoinCommand ==
    /\ pc = "L62"
    /\ ReachesCredentialCheck
    /\ ~CredentialMissing
    /\ natural_language' = Join(args.command)
    /\ trace' = Debug(trace, loglevel)
    /\ pc' = "L91"
    /\ UNCHANGED <<args, api_key, loglevel, diff_output, content, git_command,
                   is_destructive_result, proceed, unflushed, translate_calls,
                   review_calls, runner_calls, exit_code>>

\* git_command = await translate_to_git_command(natural_language, args.explain)
Translate ==
    /\ pc = "L91"
    /\ translate_calls' = Append(translate_calls,
                                 <<natural_language, WantExplanation>>)
    /\ \E r \in TranslateOutcomes(natural_language, WantExplanation) :
          IF r.ok
          THEN /\ git_command' = r.value
               /\ trace' = Debug(Append(trace, "translate"), loglevel)
               /\ pc' = "L96"
               /\ UNCHANGED exit_code
          ELSE /\ Raise(trace \o <<"translate", "TranslationError">>)
               /\ UNCHANGED git_command
    /\ UNCHANGED <<args, api_key, loglevel, diff_output, content,
                   natural_language, is_destructive_result, proceed, unflushed,
                   review_calls, runner_calls>>

\* Open the pager; print_command; print_description; out_stream.flush()
PrintCommand ==
    /\ pc = "L96"
    /\ trace' = trace \o <<"print_command", "print_description", "flush">>
    /\ unflushed' = Flush(unflushed + 2)
    /\ pc' = "L103"
    /\ UNCHANGED <<args, api_key, loglevel, diff_output, content,
                   natural_language, git_command, is_destructive_result,
                   proceed, translate_calls, review_calls, runner_calls,
                   exit_code>>

\* if args.explain: print_explanation(...); then out_stream.flush()
PrintExplanation ==
    /\ pc = "L103"
    /\ trace' = IF ExplanationShown
                THEN trace \o <<"print_explanation", "flush">>
                ELSE Append(trace, "flush")
    /\ unflushed' = Flush(unflushed + IF ExplanationShown THEN 1 ELSE 0)
    /\ pc' = "L107"
    /\ UNCHANGED <<args, api_key, loglevel, diff_output, content,
                   natural_language, git_command, is_destructive_result,
                   proceed, translate_calls, review_calls, runner_calls,
                   exit_code>>

\* is_destructive_result = is_destructive(git_command["command"]), and the
\* branch on it; the destructive branch leaves the pager block.
Classify ==
    /\ pc = "L107"
    /\ is_destructive_result' = is_destructive(git_command.command)
    /\ trace' = Append(trace, "is_destructive")
    /\ IF NotDestructive(is_destructive_result')
       THEN /\ pc' = "L109"
            /\ UNCHANGED unflushed
       ELSE /\ pc' = "L113"
            /\ \E u \in PagerExit(unflushed) : unflushed' = u
    /\ UNCHANGED <<args, api_key, loglevel, diff_output, content,
                   natural_language, git_command, proceed, translate_calls,
                   review_calls, runner_calls, exit_code>>

\* stdout = execute_git_command(git_command["command"].split()), not destructive
ExecuteSafe ==
    /\ pc = "L109"
    /\ runner_calls' = Append(runner_calls, RunnerArgv(git_command.command))
    /\ \E r \in RunnerOutcomes(RunnerArgv(git_command.command)) :
          IF r.ok
          THEN /\ trace' = Append(trace, "execute_git_command")
               /\ pc' = "L110"
               /\ UNCHANGED exit_code
          ELSE Raise(trace \o <<"execute_git_command", "ExecutionError">>)
    /\ UNCHANGED <<args, api_key, loglevel, diff_output, content,
                   natural_language, git_command, is_destructive_result,
                   proceed, unflushed, translate_calls, review_calls>>

\* out_stream.write(stdout); return (leaving the pager block)
WriteSafe ==
    /\ pc = "L110"
    /\ trace' = Append(trace, "write_stdout")
    /\ \E u \in PagerExit(unflushed + 1) : unflushed' = u
    /\ Return("Done")
    /\ UNCHANGED <<args, api_key, loglevel, diff_output, content,
                   natural_language, git_command, is_destructive_result,
                   proceed, translate_calls, review_calls, runner_calls>>

\* if is_destructive_result[0]: print the warning and the reason
\* (otherwise main ends here)
Warn ==
    /\ pc = "L113"
    /\ IF Destructive(is_destructive_result)
       THEN /\ trace' = Warning(trace)
            /\ pc' = "L116"
            /\ UNCHANGED exit_code
       ELSE /\ Return("Done")
            /\ UNCHANGED trace
    /\ UNCHANGED <<args, api_key, loglevel, diff_output, content,
                   natural_language, git_command, is_destructive_result,
                   proceed, unflushed, translate_calls, review_calls,
                   runner_calls>>

\* proceed = input("Do you wish to continue? (Y/N):"), and the check of it:
\* anything but y prints "Execution stopped." and returns.
Prompt ==
    /\ pc = "L116"
    /\ \E answer \in Responses : proceed' = answer
    /\ IF Affirmative(proceed')
       THEN /\ trace' = Append(trace, "input")
            /\ pc' = "L120"
            /\ UNCHANGED exit_code
       ELSE Stop(Append(trace, "input"))
    /\ UNCHANGED <<args, api_key, loglevel, diff_output, content,
                   natural_language, git_command, is_destructive_result,
                   unflushed, translate_calls, review_calls, runner_calls>>

\* stdout = execute_git_command(git_command["command"].split()), confirmed
ExecuteConfirmed ==
    /\ pc = "L120"
    /\ runner_calls' = Append(runner_calls, RunnerArgv(git_command.command))
    /\ \E r \in RunnerOutcomes(RunnerArgv(git_command.command)) :
          IF r.ok
          THEN /\ trace' = Append(trace, "execute_git_command")
               /\ pc' = "L121"
               /\ UNCHANGED exit_code
          ELSE Raise(trace \o <<"execute_git_command", "ExecutionError">>)
    /\ UNCHANGED <<args, api_key, loglevel, diff_output, content,
                   natural_language, git_command, is_destructive_result,
                   proceed, unflushed, translate_calls, review_calls>>

\* A second pager: out_stream2.write(stdout); out_stream2.flush()
WriteConfirmed ==
    /\ pc = "L121"
    /\ trace' = trace \o <<"write_stdout", "flush">>
    /\ unflushed' = Flush(unflushed + 1)
    /\ Return("Done")
    /\ UNCHANGED <<args, api_key, loglevel, diff_output, content,
                   natural_language, git_command, is_destructive_result,
                   proceed, translate_calls, review_calls, runner_calls>>

Next ==
    \/ SetDebugLevel
    \/ GatherDiff
    \/ ReviewPatch
    \/ PrintReview
    \/ ExplainUsage
    \/ PrintHelp
    \/ MissingCredential
    \/ JoinCommand
    \/ Translate
    \/ PrintCommand
    \/ PrintExplanation
    \/ Classify
    \/ ExecuteSafe
    \/ WriteSafe
    \/ Warn
    \/ Prompt
    \/ ExecuteConfirmed
    \/ WriteConfirmed

Spec == Init /\ [][Next]_vars

\* Every step of main but the prompt: the interpreter runs on and the
\* collaborators return.
Steps ==
    \/ SetDebugLevel \/ GatherDiff \/ ReviewPatch \/ PrintReview
    \/ ExplainUsage \/ PrintHelp \/ MissingCredential \/ JoinCommand
    \/ Translate \/ PrintCommand \/ PrintExplanation \/ Classify
    \/ ExecuteSafe \/ WriteSafe \/ Warn \/ ExecuteConfirmed
    \/ WriteConfirmed

\* The run with its scheduling: main runs to its end as one sequential task;
\* only the answer at the prompt has no deadline.
FairSpec == Spec /\ WF_vars(Steps)

\* The orchestrator's state at each position of main.
State ==
    CASE pc \in {"L59", "L62"} -> "Idle"
      [] pc \in {"L66", "L69"} -> "Reviewing"
      [] pc = "L91" -> "Translating"
      [] pc \in {"L96", "L103", "L107"} -> "Classifying"
      [] pc \in {"L113", "L116"} -> "AwaitingConfirmation"
      [] pc \in {"L109", "L110", "L120", "L121"} -> "Executing"
      [] OTHER -> pc

TypeOK ==
    /\ pc \in {"L59", "L62", "L66", "L69", "L91", "L96", "L103", "L107",
               "L109", "L110", "L113", "L116", "L120", "L121",
               "Done", "Aborted", "Error"}
    /\ exit_code \in {-1, 0, 1}
    /\ unflushed \in {0, 1}

\* ------------------------------------------------------------ properties
\* Event e occurs in the run so far.
Happened(e) == \E i \in DOMAIN trace : trace[i] = e

\* Event e was written and flushed before position i of the trace.
DisplayedBefore(e, i) ==
    \E j \in 1..(i - 1) : \E f \in (j + 1)..(i - 1) :
        trace[j] = e /\ trace[f] = "flush"

\* The run has ended.
Terminal == pc \in {"Done", "Aborted", "Error"}

\* The classifier has returned its verdict in this run.
Classified == Happened("is_destructive")

\* The suggested command is destructive by the classifier's verdict.
VerdictDestructive == Classified /\ is_destructive(git_command.command)[1]

\* C1: the command-runner is never invoked with a suggested command whose
\* verdict is destructive unless, earlier in the same run, the prompt was
\* answered affirmatively.
C1_DestructiveNeedsConfirmation ==
    \A i \in DOMAIN trace :
        (trace[i] = "execute_git_command" /\ VerdictDestructive)
        => /\ \E j \in 1..(i - 1) : trace[j] = "input"
           /\ Affirmative(proceed)

C1_Witness ==
    /\ pc = "Done"
    /\ VerdictDestructive
    /\ runner_calls = <<Split(git_push_force)>>

\* C2: with a verdict that is not destructive the orchestrator goes from
\* Classifying straight to Executing: the runner is invoked with the
\* suggested command, and no warning and no prompt is ever issued.
C2_SafeExecutesDirectly ==
    (Classified /\ ~is_destructive(git_command.command)[1])
    => /\ ~Happened("warning")
       /\ ~Happened("reason")
       /\ ~Happened("input")
       /\ State \in {"Executing", "Done", "Error"}
       /\ pc # "L109" => runner_calls = <<Split(git_command.command)>>
       /\ pc = "Error" => Happened("ExecutionError")

C2_Witness ==
    /\ pc = "Done"
    /\ git_command.command = git_status
    /\ runner_calls = << << SubSeq(git_status, 1, 3),
                            SubSeq(git_status, 5, 10) >> >>

\* C3 as stated: from AwaitingConfirmation the run moves to Executing
\* exactly when the answer, compared case-insensitively, is "y", and to
\* Aborted on every other answer.
C3_ExactYOnly ==
    Happened("input")
    => IF Lower(proceed) = <<"y">>
       THEN pc # "Aborted" /\ (pc = "L120" \/ runner_calls # <<>>)
       ELSE pc = "Aborted" /\ runner_calls = <<>>

\* C3 amended: from AwaitingConfirmation the run moves to Executing exactly
\* when the answer with its leading and trailing whitespace removed,
\* compared case-insensitively, is "y", and to Aborted on every other answer.
C3_StrippedY ==
    Happened("input")
    => IF Lower(Strip(proceed)) = <<"y">>
       THEN pc # "Aborted" /\ (pc = "L120" \/ runner_calls # <<>>)
       ELSE pc = "Aborted" /\ runner_calls = <<>>

C3_Witness ==
    /\ pc = "L120"
    /\ proceed = <<" ", "Y", " ">>

\* C4: when the user declines the confirmation the run ends Aborted:
\* "Execution stopped." is printed, the runner is never invoked, and the
\* process ends normally with exit status 0.
C4_DeclineAborts ==
    (Happened("input") /\ ~Affirmative(proceed))
    => /\ pc = "Aborted"
       /\ Count(trace, "execution_stopped") = 1
       /\ runner_calls = <<>>
       /\ ~Happened("execute_git_command")
       /\ exit_code = 0
       /\ ~Happened("traceback")

C4_Witness ==
    /\ pc = "Aborted"
    /\ proceed = <<"n">>
    /\ Happened("execution_stopped")

\* C5: before any confirmation prompt and any runner invocation the
\* description, and with --explain the explanation, has been displayed.
C5_ShownBeforeActing ==
    \A i \in DOMAIN trace :
        trace[i] \in {"input", "execute_git_command"}
        => /\ DisplayedBefore("print_command", i)
           /\ DisplayedBefore("print_description", i)
           /\ args.explain => DisplayedBefore("print_explanation", i)

C5_Witness ==
    /\ args.explain
    /\ Happened("input")
    /\ Happened("execute_git_command")

\* C6: when the confirmation prompt blocks, nothing written to the output
\* stream before it is still unflushed.
C6_FlushedAtPrompt ==
    pc = "L116"
    => /\ unflushed = 0
       /\ \A j \in DOMAIN trace :
            trace[j] \in {"print_command", "print_description",
                          "print_explanation"}
            => \E f \in (j + 1)..Len(trace) :
                  /\ trace[f] = "flush"
                  /\ \A k \in DOMAIN trace :
                        trace[k] \in {"warning", "input"} => f < k

C6_Witness ==
    /\ pc = "L116"
    /\ args.explain
    /\ Happened("print_explanation")

\* C7 as stated: with the credential missing and positional tokens given,
\* the run prints the credential-missing message and ends without calling
\* the translator, the classifier, the prompt or the runner.
C7_MissingKeyAlwaysReported ==
    (api_key = "" /\ args.command # <<>>)
    => /\ translate_calls = <<>>
       /\ ~Classified
       /\ ~Happened("input")
       /\ runner_calls = <<>>
       /\ Terminal => Happened("api_key_not_set")

\* C7 amended: outside review mode, with the credential missing and
\* positional tokens given, the run prints the credential-missing message
\* and ends without calling the translator, the classifier, the prompt or
\* the runner.
C7_MissingKeyReported ==
    (~args.review /\ api_key = "" /\ args.command # <<>>)
    => /\ translate_calls = <<>>
       /\ ~Classified
       /\ ~Happened("input")
       /\ runner_calls = <<>>
       /\ pc \in {"L59", "L62", "Done"}
       /\ Terminal => (Count(trace, "api_key_not_set") = 1 /\ exit_code = 0)

C7_Witness ==
    /\ ~args.review
    /\ api_key = ""
    /\ args.command # <<>>
    /\ pc = "Done"
    /\ Happened("api_key_not_set")

C9_TranslationErrorEndsRun ==
    Happened("TranslationError")
    => /\ pc = "Error"
       /\ Happened("traceback")
       /\ exit_code # 0
       /\ exit_code # -1
       /\ ~Happened("print_command")
       /\ ~Happened("print_description")
       /\ ~Happened("print_explanation")
       /\ ~Classified
       /\ ~Happened("input")
       /\ runner_calls = <<>>

C9_Witness ==
    /\ Happened("TranslationError")
    /\ Len(translate_calls) = 1
    /\ pc = "Error"

\* C10: when the command-runner fails, on either execution path, the
\* failure is surfaced and the orchestrator does not crash: the run ends in
\* an orderly terminal state.
C10_RunnerFailureIsOrderly ==
    Happened("ExecutionError")
    => /\ ~Happened("traceback")
       /\ pc # "Error"

\* C11: in review mode with an empty diff the feedback says that there is
\* nothing to review and the language model is never called.
C11_EmptyDiffSkipsModel ==
    (args.review /\ Happened("review_patch") /\ diff_output = "")
    => /\ ~Happened("llm_call")
       /\ ~Happened("ReviewError")
       /\ pc \in {"L69", "Done"}
       /\ content = "nothing to review"
       /\ pc = "Done" => Happened("print_review")

C11_Witness ==
    /\ args.review
    /\ diff_output = ""
    /\ pc = "Done"
    /\ content = "nothing to review"
    /\ Len(review_calls) = 1

\* C12: outside review mode with no command text the translator is never
\* invoked: with --explain the usage documentation is printed, without it
\* the help, and the run ends with exit status 0 whether or not the
\* credential is set.
C12_NoCommandPrintsUsage ==
    (~args.review /\ args.command = <<>>)
    => /\ translate_calls = <<>>
       /\ pc \in {"L59", "L62", "Done"}
       /\ ~Happened("api_key_not_set")
       /\ Terminal
          => /\ exit_code = 0
             /\ trace = IF args.explain THEN <<"explain">>
                                        ELSE <<"print_help">>

C12_Witness ==
    /\ ~args.review
    /\ args.explain
    /\ args.command = <<>>
    /\ api_key = ""
    /\ pc = "Done"
    /\ Happened("explain")

\* C13: the verdict's reason is non-empty when the verdict is destructive
\* and empty when it is not, so the "Reason:" line shown before the prompt
\* is never empty.
C13_ReasonIffDestructive ==
    Classified
    => /\ is_destructive_result[1] <=> is_destructive_result[2] # <<>>
       /\ Happened("reason") => ReasonLine # <<>>

C13_Witness ==
    /\ pc = "L116"
    /\ git_command.command = git_reset_hard
    /\ ReasonLine = <<"-", "-", "h", "a", "r", "d">>

\* C14: the translator is only ever invoked with a non-empty instruction,
\* whatever the positional tokens are.
C14_TranslatorInputNonEmpty ==
    /\ \A i \in DOMAIN translate_calls : translate_calls[i][1] # <<>>
    /\ State = "Translating" => natural_language # <<>>

\* C15: the translator is asked for an explanation exactly when --explain
\* was given, and the explanation is printed exactly in the runs with
\* --explain whose translation succeeded.
C15_ExplanationIffFlag ==
    /\ \A i \in DOMAIN translate_calls :
          translate_calls[i][2] = args.explain
    /\ Happened("print_explanation")
       => /\ args.explain
          /\ Happened("translate")
          /\ ~Happened("TranslationError")
          /\ git_command.explain # ""
    /\ (/\ args.explain
        /\ Happened("translate")
        /\ ~Happened("TranslationError")
        /\ pc \notin {"L96", "L103"})
       => Count(trace, "print_explanation") = 1

C15_Witness ==
    /\ args.explain
    /\ pc = "Done"
    /\ Happened("print_explanation")
    /\ translate_calls = << <<Join(args.command), TRUE>> >>

\* C16: the warning and the reason are displayed before the prompt blocks,
\* and only in runs whose verdict is destructive.
C16_WarningBeforePrompt ==
    /\ pc = "L116"
       => (Count(trace, "warning") = 1 /\ Count(trace, "reason") = 1)
    /\ \A i \in DOMAIN trace :
          trace[i] = "input"
          => \E j \in 1..(i - 1) : \E k \in (j + 1)..(i - 1) :
                trace[j] = "warning" /\ trace[k] = "reason"
    /\ (Happened("warning") \/ Happened("reason")) => VerdictDestructive

C16_Witness ==
    /\ pc = "L116"
    /\ Happened("warning")
    /\ Happened("reason")
    /\ ~Happened("input")

\* C17: in one run the translator, the classifier, the prompt and the
\* command-runner are each used at most once; the two execution sites
\* exclude each other and nothing is retried.
C17_AtMostOnce ==
    /\ Len(translate_calls) <= 1
    /\ Count(trace, "translate") <= 1
    /\ Count(trace, "is_destructive") <= 1
    /\ Count(trace, "input") <= 1
    /\ Len(runner_calls) <= 1
    /\ Count(trace, "execute_git_command") <= 1
    /\ Len(review_calls) <= 1

C17_Witness ==
    /\ pc = "Done"
    /\ Len(translate_calls) = 1
    /\ Count(trace, "input") = 1
    /\ Len(runner_calls) = 1

\* C18: the runner receives the command text of the one suggestion of this
\* run, split into argument tokens, the text that was classified; once
\* returned by the translator the suggestion never changes.
C18_SuggestionUnchanged ==
    /\ [](/\ \A i \in DOMAIN runner_calls :
               runner_calls[i] = Split(git_command.command)
          /\ Classified
             => is_destructive_result = is_destructive(git_command.command)
          /\ Happened("print_command") => git_command \in
                {o.value : o \in {r \in TranslateOutcomes(natural_language,
                                                         args.explain) : r.ok}})
    /\ [][git_command # NoSuggestion => git_command' = git_command]_vars

C18_Witness ==
    /\ pc = "Done"
    /\ git_command.command = git_log
    /\ runner_calls = << << <<"g", "i", "t">>, <<"l", "o", "g">> >> >>

C20_ReviewSkipsCredentialCheck ==
    args.review
    => /\ ~Happened("api_key_not_set")
       /\ pc \notin {"L59", "L62"} => Happened("gather_output")
       /\ Terminal => Len(review_calls) = 1

C20_Witness ==
    /\ args.review
    /\ api_key = ""
    /\ args.command # <<>>
    /\ pc = "Done"
    /\ Len(review_calls) = 1
====
